---- MODULE Spec2Model ----
(***************************************************************************)
(* Model of the hook burn_one_percent (src/hook/src/lib.rs).               *)
(*                                                                         *)
(* The hook is invoked by the host once per transaction with a context tx. *)
(* It asks the host whether the transaction is an XRP payment, reads the   *)
(* amount, divides it by 100 and, when the quotient is not zero, asks the  *)
(* host to burn the quotient and accepts with "1% Spark burned".           *)
(*                                                                         *)
(* amt and burn are 64-bit unsigned words.  A word is written as a tuple   *)
(* of NumLimbs digits in radix Base, most significant digit first, and     *)
(* the division is carried out digit by digit, so that the full range of   *)
(* the word is covered, 2^64 - 1 included.                                 *)
(***************************************************************************)
EXTENDS Integers, Sequences, FiniteSets, TLC

\* ------------------------------------------------------------------------
\* 64-bit unsigned words
\* ------------------------------------------------------------------------

\* radix of one digit of a word (16 bits)
Base == 65536

\* number of digits of a word: 4 * 16 = 64 bits
NumLimbs == 4

\* the divisor of line 13
Hundred == 100

\* largest quotient of the small amounts q * 100 + r that are enumerated
MaxQuot == 3

\* the word of a small natural number n < Base * Base
Word(n) == <<0, 0, n \div Base, n % Base>>

Zero == Word(0)

\* u64::MAX
U64Max == <<65535, 65535, 65535, 65535>>

\* a local that has not been assigned yet
Unset == <<>>

RECURSIVE LeqFrom(_, _, _)
LeqFrom(a, b, i) ==
    IF i > NumLimbs THEN TRUE
    ELSE IF a[i] < b[i] THEN TRUE
    ELSE IF a[i] > b[i] THEN FALSE
    ELSE LeqFrom(a, b, i + 1)

\* a <= b on words
Leq(a, b) == LeqFrom(a, b, 1)

\* a < b on words
Less(a, b) == a # b /\ Leq(a, b)

\* a / d on a word, for a divisor 0 < d < Base: schoolbook long division,
\* most significant digit first; rem is the running remainder (rem < d)
RECURSIVE DivFrom(_, _, _, _)
DivFrom(a, d, i, rem) ==
    IF i > NumLimbs THEN <<>>
    ELSE LET cur == rem * Base + a[i]
         IN  <<cur \div d>> \o DivFrom(a, d, i + 1, cur % d)

DivSmall(a, d) == DivFrom(a, d, 1, 0)

\* a * m + c on a word, for 0 <= m, c < Base: least significant digit
\* first; the result is the record of the low 64 bits and the carry out
RECURSIVE MulFrom(_, _, _, _)
MulFrom(a, m, i, carry) ==
    IF i = 0 THEN [limbs |-> <<>>, carry |-> carry]
    ELSE LET cur  == a[i] * m + carry
             rest == MulFrom(a, m, i - 1, cur \div Base)
         IN  [limbs |-> rest.limbs \o <<cur % Base>>, carry |-> rest.carry]

MulAdd(a, m, c) == MulFrom(a, m, NumLimbs, c)

\* a * m reduced modulo 2^64 (wrapping multiplication)
WrappingMul(a, m) == MulAdd(a, m, 0).limbs

\* b = floor(a / 100): b * 100 + r = a for a remainder 0 <= r < 100, the
\* product computed in full (no carry out of the 64 bits)
IsFloorDiv100(a, b) ==
    \E r \in 0 .. (Hundred - 1) : MulAdd(b, Hundred, r) = [limbs |-> a, carry |-> 0]

\* a 1% computed on basis points, amt * 100 / 10000, the product wrapping
Div100ViaBasisPoints(a) == DivSmall(WrappingMul(a, Hundred), Hundred * Hundred)

\* amt * 100 instead of amt / 100
Times100(a) == WrappingMul(a, Hundred)

\* line 13: amt / 100
Div100(a) == DivSmall(a, Hundred)

\* ------------------------------------------------------------------------
\* The transaction views the host may present
\* ------------------------------------------------------------------------

SmallAmounts == { Word(q * Hundred + r) : q \in 0 .. MaxQuot, r \in {0, 1, 50, 99} }

LargeAmounts ==
    { <<0, 0, 0, 65535>>, <<0, 0, 1, 0>>, <<0, 0, 65535, 65535>>, <<0, 1, 0, 0>>,
      <<1, 0, 0, 0>>, <<655, 23592, 62914, 36700>>, <<655, 23592, 62914, 36701>>,
      <<32768, 0, 0, 0>>, <<65535, 65535, 65535, 65436>>, U64Max }

Amounts == SmallAmounts \cup LargeAmounts

Views == [isQualifyingPayment : BOOLEAN, transferredAmount : Amounts]

\* ------------------------------------------------------------------------
\* State
\* ------------------------------------------------------------------------

VARIABLES
    tx,           \* the context of the running evaluation (the host's view)
    entry,        \* the view as it was when the evaluation was entered
    pc,           \* position in burn_one_percent
    amt,          \* local amt (line 12)
    burn,         \* local burn (line 13)
    calls,        \* host calls made by the running evaluation, in order
    disposition,  \* what the evaluation handed back to the host
    prev          \* the previous evaluation: its view and its outcome

vars == <<tx, entry, pc, amt, burn, calls, disposition, prev>>

\* a host call; arg is the word passed to burn, reason and code those
\* passed to ACCEPT
HostCall(op, arg, reason, code) ==
    [op |-> op, arg |-> arg, reason |-> reason, code |-> code]

IsXrpPaymentCall == HostCall("is_xrp_payment", Unset, "", 0)
AmountCall       == HostCall("amount", Unset, "", 0)
BurnInstr(b)     == HostCall("burn", b, "", 0)
AcceptInstr(reason, code) == HostCall("accept", Unset, reason, code)

NoDisposition == [kind |-> "None", reason |-> "", code |-> 0]

\* ACCEPT(reason, code), line 17
Accept(reason, code) == [kind |-> "Accept", reason |-> reason, code |-> code]

ReturnRollBack(code) == [kind |-> "RollBack", reason |-> "", code |-> code]

\* `return code` from the hook (lines 10 and 14): the hook completes normally
\* and hands the host the status code, with no reason text and without a
\* call of ACCEPT.  Completing with a status is the only kind of outcome the
\* source has, so it carries the same tag as the outcome of ACCEPT.
Return(code) == Accept("", code)

\* the burn instructions among a sequence of host calls
BurnsOf(cs) == SelectSeq(cs, LAMBDA c : c.op = "burn")

SuccBurnAfterAccept(loc, cond) ==
    CASE loc = "guard"       -> IF cond THEN "read_amount" ELSE "done"
      [] loc = "read_amount" -> "divide"
      [] loc = "divide"      -> "zero_check"
      [] loc = "zero_check"  -> IF cond THEN "accept" ELSE "done"
      [] loc = "accept"      -> "burn"
      [] loc = "burn"        -> "done"

\* control flow of burn_one_percent: the position after the statement at
\* loc, cond being the outcome of its test (TRUE: execution goes on)
Succ(loc, cond) ==
    CASE loc = "guard"       -> IF cond THEN "read_amount" ELSE "done"
      [] loc = "read_amount" -> "divide"
      [] loc = "divide"      -> "zero_check"
      [] loc = "zero_check"  -> IF cond THEN "burn" ELSE "done"
      [] loc = "burn"        -> "accept"
      [] loc = "accept"      -> "done"

\* ------------------------------------------------------------------------
\* Initial state: the host has entered the hook with some view
\* ------------------------------------------------------------------------

Init ==
    /\ tx \in Views
    /\ entry = tx
    /\ pc = "guard"
    /\ amt = Unset
    /\ burn = Unset
    /\ calls = <<>>
    /\ disposition = NoDisposition
    /\ prev = <<>>

\* ------------------------------------------------------------------------
\* The statements of burn_one_percent
\* ------------------------------------------------------------------------

GuardNoShortCircuit ==
    /\ pc = "guard"
    /\ calls' = Append(calls, IsXrpPaymentCall)
    /\ pc' = Succ("guard", TRUE)
    /\ UNCHANGED <<tx, entry, amt, burn, disposition, prev>>

\* lines 9-11: if !tx.is_xrp_payment() { return 0; }
Guard ==
    /\ pc = "guard"
    /\ calls' = Append(calls, IsXrpPaymentCall)
    /\ pc' = Succ("guard", tx.isQualifyingPayment)
    /\ disposition' = IF tx.isQualifyingPayment THEN disposition ELSE Return(0)
    /\ UNCHANGED <<tx, entry, amt, burn, prev>>

ReadAmountTakes ==
    /\ pc = "read_amount"
    /\ calls' = Append(calls, AmountCall)
    /\ amt' = tx.transferredAmount
    /\ tx' = [tx EXCEPT !.transferredAmount = Zero]
    /\ pc' = Succ("read_amount", TRUE)
    /\ UNCHANGED <<entry, burn, disposition, prev>>

ReadAmountStale ==
    /\ pc = "read_amount"
    /\ calls' = Append(calls, AmountCall)
    /\ amt' = IF prev = <<>> THEN tx.transferredAmount
              ELSE prev[1].view.transferredAmount
    /\ pc' = Succ("read_amount", TRUE)
    /\ UNCHANGED <<tx, entry, burn, disposition, prev>>

\* line 12: let amt = tx.amount();
ReadAmount ==
    /\ pc = "read_amount"
    /\ calls' = Append(calls, AmountCall)
    /\ amt' = tx.transferredAmount
    /\ pc' = Succ("read_amount", TRUE)
    /\ UNCHANGED <<tx, entry, burn, disposition, prev>>

\* line 13: let burn = amt / 100;
Divide ==
    /\ pc = "divide"
    /\ burn' = Div100(amt)
    /\ pc' = Succ("divide", TRUE)
    /\ UNCHANGED <<tx, entry, amt, calls, disposition, prev>>

ZeroCheckMissing ==
    /\ pc = "zero_check"
    /\ pc' = Succ("zero_check", TRUE)
    /\ UNCHANGED <<tx, entry, amt, burn, calls, disposition, prev>>

\* line 14: if burn == 0 { return 0; }
ZeroCheck ==
    /\ pc = "zero_check"
    /\ pc' = Succ("zero_check", burn # Zero)
    /\ disposition' = IF burn = Zero THEN Return(0) ELSE disposition
    /\ UNCHANGED <<tx, entry, amt, burn, calls, prev>>

BurnCallWholeAmount ==
    /\ pc = "burn"
    /\ calls' = Append(calls, BurnInstr(amt))
    /\ pc' = Succ("burn", TRUE)
    /\ UNCHANGED <<tx, entry, amt, burn, disposition, prev>>

BurnCallTwice ==
    /\ pc = "burn"
    /\ calls' = calls \o <<BurnInstr(burn), BurnInstr(burn)>>
    /\ pc' = Succ("burn", TRUE)
    /\ UNCHANGED <<tx, entry, amt, burn, disposition, prev>>

\* line 16: tx.burn(burn);
BurnCall ==
    /\ pc = "burn"
    /\ calls' = Append(calls, BurnInstr(burn))
    /\ pc' = Succ("burn", TRUE)
    /\ UNCHANGED <<tx, entry, amt, burn, disposition, prev>>

\* line 17: ACCEPT("1% Spark burned", 0);
AcceptCall ==
    /\ pc = "accept"
    /\ calls' = Append(calls, AcceptInstr("1% Spark burned", 0))
    /\ disposition' = Accept("1% Spark burned", 0)
    /\ pc' = Succ("accept", TRUE)
    /\ UNCHANGED <<tx, entry, amt, burn, prev>>

\* one step of the body of the hook, lines 7-18
burn_one_percent ==
    \/ Guard
    \/ ReadAmount
    \/ Divide
    \/ ZeroCheck
    \/ BurnCall
    \/ AcceptCall

\* the outcome of the evaluation that has just ended
Outcome == [view |-> entry, disposition |-> disposition, burns |-> BurnsOf(calls)]

\* line 6, #[hook]: the host enters the hook for the next transaction, with
\* a fresh view and fresh locals
Invoke ==
    /\ pc = "done"
    /\ prev' = <<Outcome>>
    /\ tx' \in Views
    /\ entry' = tx'
    /\ pc' = "guard"
    /\ amt' = Unset
    /\ burn' = Unset
    /\ calls' = <<>>
    /\ disposition' = NoDisposition

Next == burn_one_percent \/ Invoke

Spec == Init /\ [][Next]_vars

\* the hook runs synchronously to completion once it is entered
FairSpec == Spec /\ WF_vars(burn_one_percent)

\* ------------------------------------------------------------------------
\* Properties
\* ------------------------------------------------------------------------

\* the evaluation has ended
Done == pc = "done"

\* the number of burn instructions issued so far by the running evaluation
NumBurns == Len(BurnsOf(calls))

\* C1: an evaluation of a non-qualifying transaction, whatever its amount,
\* never reads the amount from the host, never issues a burn instruction,
\* and ends with the disposition Accept("", 0).
C1_NonQualifyingIsNoop ==
    ~entry.isQualifyingPayment =>
        /\ \A i \in DOMAIN calls : calls[i].op \notin {"amount", "burn"}
        /\ amt = Unset
        /\ Done => disposition = Accept("", 0)

C1_Witness ==
    /\ Done
    /\ ~entry.isQualifyingPayment
    /\ entry.transferredAmount = U64Max
    /\ calls = <<IsXrpPaymentCall>>

\* C2: an evaluation of a qualifying transaction with amount >= 100 ends
\* having issued exactly one burn instruction, whose argument is
\* floor(amount / 100), with the disposition Accept("1% Spark burned", 0).
C2_BurnsOnePercent ==
    (Done /\ entry.isQualifyingPayment /\ Leq(Word(Hundred), entry.transferredAmount)) =>
        /\ NumBurns = 1
        /\ IsFloorDiv100(entry.transferredAmount, BurnsOf(calls)[1].arg)
        /\ disposition = Accept("1% Spark burned", 0)

C2_Witness ==
    /\ Done
    /\ entry.isQualifyingPayment
    /\ entry.transferredAmount = Word(250)
    /\ BurnsOf(calls) = <<BurnInstr(Word(2))>>

\* C3: in an evaluation of a qualifying transaction with amount < 100 the
\* computed burn is 0, no burn instruction is issued, and the evaluation
\* ends with the disposition Accept("", 0).
C3_BelowHundredIsNoop ==
    (entry.isQualifyingPayment /\ Less(entry.transferredAmount, Word(Hundred))) =>
        /\ burn \in {Unset, Zero}
        /\ NumBurns = 0
        /\ Done => (burn = Zero /\ disposition = Accept("", 0))

C3_Witness ==
    /\ Done
    /\ entry.isQualifyingPayment
    /\ entry.transferredAmount = Word(99)
    /\ burn = Zero

\* C4: every evaluation that has been entered terminates, and whenever it
\* has terminated the host holds an accept disposition (never a RollBack or
\* Reject, never no disposition at all).
C4_TerminatesAccepting ==
    /\ [](Done => disposition.kind = "Accept")
    /\ [](~Done => <>Done)

C4_Witness ==
    /\ Done
    /\ prev # <<>>
    /\ prev[1].disposition = Accept("", 0)
    /\ disposition = Accept("1% Spark burned", 0)

\* C5: in every state the computed burn, and the argument of every burn
\* instruction issued, is at most the transaction's transferredAmount.
C5_BurnAtMostAmount ==
    /\ burn # Unset => Leq(burn, tx.transferredAmount)
    /\ \A i \in DOMAIN calls :
          calls[i].op = "burn" => Leq(calls[i].arg, tx.transferredAmount)

C5_Witness ==
    /\ burn # Unset
    /\ burn # Zero
    /\ Less(burn, tx.transferredAmount)
    /\ NumBurns = 1

\* C6: within one evaluation the burn instruction is issued at most once.
C6_BurnAtMostOnce == NumBurns <= 1

C6_Witness == Done /\ NumBurns = 1

\* C7: an evaluation that ends on the same view as the evaluation before it
\* ends with the same disposition and the same burn instructions.
C7_Deterministic ==
    (Done /\ prev # <<>> /\ prev[1].view = entry) =>
        /\ prev[1].disposition = disposition
        /\ prev[1].burns = BurnsOf(calls)

C7_Witness ==
    /\ Done
    /\ prev # <<>>
    /\ prev[1].view = entry
    /\ NumBurns = 1

\* floor((2^64 - 1) / 100) = 184467440737095516 = 0x028F5C28F5C28F5C
U64MaxOver100 == <<655, 23592, 62914, 36700>>

\* C8: for amount = u64::MAX the burn is exactly floor((2^64 - 1) / 100),
\* obtained without wrapping, and a burn instruction for it is issued.
C8_NoOverflowAtMax ==
    (entry.isQualifyingPayment /\ entry.transferredAmount = U64Max) =>
        /\ burn # Unset =>
              /\ burn = U64MaxOver100
              /\ IsFloorDiv100(U64Max, burn)
        /\ Done => BurnsOf(calls) = <<BurnInstr(U64MaxOver100)>>

C8_Witness ==
    /\ Done
    /\ entry.isQualifyingPayment
    /\ amt = U64Max
    /\ NumBurns = 1

\* C9: the view is never changed by the evaluation, and the only calls the
\* evaluation makes that ask the host to act are at most one burn
\* instruction and the accept that ends it.
C9_ViewUnchanged ==
    /\ tx = entry
    /\ \A i \in DOMAIN calls :
          calls[i].op \in {"is_xrp_payment", "amount", "burn", "accept"}
    /\ Len(SelectSeq(calls, LAMBDA c : c.op \notin {"is_xrp_payment", "amount", "accept"})) <= 1

C9_Witness ==
    /\ Done
    /\ tx = entry
    /\ tx.isQualifyingPayment
    /\ amt = tx.transferredAmount
    /\ NumBurns = 1

\* the host calls of the burn path, in order
BurnPath ==
    <<IsXrpPaymentCall, AmountCall, BurnInstr(burn), AcceptInstr("1% Spark burned", 0)>>

\* C10: when a burn is due the host calls are made in the order
\* is_xrp_payment, amount, burn, accept; an accept is preceded by the burn,
\* and after the accept the evaluation is over: no statement of the hook
\* can execute.
C10_BurnThenAccept ==
    /\ (pc \in {"burn", "accept"} \/ NumBurns > 0) =>
          /\ Len(calls) <= Len(BurnPath)
          /\ calls = SubSeq(BurnPath, 1, Len(calls))
    /\ (\E i \in DOMAIN calls : calls[i].op = "accept") =>
          /\ calls = BurnPath
          /\ Done
    /\ Done => ~ENABLED burn_one_percent

C10_Witness ==
    /\ Done
    /\ calls = BurnPath

====
